---- MODULE Spec2Model ----
(***************************************************************************)
(* ID3 decision tree of src/algorithm/DT/index.ts: createTree run as an    *)
(* explicit call stack, classify as a recursive operator over the built    *)
(* tree, and the DT facade (constructor, classify, classifyFromTree,       *)
(* getTree, storeTree).                                                    *)
(*                                                                         *)
(* JavaScript values are records tagged with their typeof: k is the type   *)
(* and s the text String(v) that the value becomes when it is used as a    *)
(* property key.  An object is its list of own entries in Object.keys      *)
(* order.  Array positions are the 0-based positions of the source.        *)
(*                                                                         *)
(* Entropies are kept exact: calShannoEnt returns the pair (num, den) of   *)
(* the value log2(num / den) / n, so gains are compared by cross           *)
(* multiplication.  For the data sets enumerated here (at most three rows, *)
(* and the five-row example of the documentation) every sum the source     *)
(* forms in double arithmetic has at most two non-zero terms or repeats    *)
(* the same term order, so the double comparison agrees with the exact     *)
(* one.                                                                    *)
(***************************************************************************)
EXTENDS Integers, Sequences, FiniteSets, TLC

VARIABLES dataSet, heap, stack, tree, phase, last, pending

vars == <<dataSet, heap, stack, tree, phase, last, pending>>

\* Largest number of examples of an enumerated data set.
MaxRows == 2

\* Largest number of storeTree writes in flight at once.
MaxPending == 1

(***************************************************************************)
(* Values                                                                  *)
(***************************************************************************)
Num(text) == [k |-> "number", s |-> text]

Str(text) == [k |-> "string", s |-> text]

Undefined == [k |-> "undefined", s |-> "undefined"]

Obj(entries) == [k |-> "object", s |-> "[object Object]", dict |-> entries]

\* The exception a call ends with instead of a value.
TypeError == [k |-> "throw", s |-> "TypeError"]

\* String(v): the property key a value is converted to.
ToKey(v) == v.s

\* arr[i] of an array, undefined outside 0 .. length-1.
At(arr, i) == IF i >= 0 /\ i < Len(arr) THEN arr[i + 1] ELSE Undefined

\* Decimal text of a small array index.
IndexText == <<"0", "1", "2", "3", "4", "5", "6", "7", "8">>

\* A key that is an array index ("0", "1", ...): such keys come first in
\* Object.keys, in ascending numeric order.
IsIndexKey(key) == \E i \in 1..Len(IndexText) : IndexText[i] = key

IndexOfKey(key) == CHOOSE i \in 0..(Len(IndexText) - 1) : IndexText[i + 1] = key

\* The characters of the strings that occur as values.
Chars(text) ==
    CASE text = "yes" -> <<"y", "e", "s">>
      [] text = "no" -> <<"n", "o">>
      [] text = "undefined" -> <<"u", "n", "d", "e", "f", "i", "n", "e", "d">>
      [] text = "" -> <<>>
      [] OTHER -> <<text>>

HasKey(entries, key) == \E i \in 1..Len(entries) : entries[i].key = key

\* Position at which a new key is listed by Object.keys.
InsertPos(entries, key) ==
    IF IsIndexKey(key)
    THEN Cardinality({i \in 1..Len(entries) :
             IsIndexKey(entries[i].key)
             /\ IndexOfKey(entries[i].key) < IndexOfKey(key)}) + 1
    ELSE Len(entries) + 1

\* obj[key] = val on the entries of an object.
Put(entries, key, val) ==
    IF HasKey(entries, key)
    THEN [i \in 1..Len(entries) |->
             IF entries[i].key = key THEN [key |-> key, val |-> val] ELSE entries[i]]
    ELSE LET p == InsertPos(entries, key)
         IN SubSeq(entries, 1, p - 1) \o <<[key |-> key, val |-> val]>>
                \o SubSeq(entries, p, Len(entries))

\* Object.keys(v) of a value that is not undefined.
ObjectKeys(v) ==
    CASE v.k = "object" -> [i \in 1..Len(v.dict) |-> v.dict[i].key]
      [] v.k = "string" -> [i \in 1..Len(Chars(v.s)) |-> IndexText[i]]
      [] OTHER -> <<>>

\* v[key] for a key value (a string or undefined) of a value that is not undefined.
GetProp(v, key) ==
    CASE v.k = "object" /\ HasKey(v.dict, ToKey(key)) ->
             v.dict[CHOOSE i \in 1..Len(v.dict) : v.dict[i].key = ToKey(key)].val
      [] v.k = "string" /\ IsIndexKey(ToKey(key))
             /\ IndexOfKey(ToKey(key)) < Len(Chars(v.s)) ->
             Str(Chars(v.s)[IndexOfKey(ToKey(key)) + 1])
      [] OTHER -> Undefined

\* [...new Set(list)]: the distinct values in order of first occurrence.
RECURSIVE UniqueFrom(_, _)
UniqueFrom(list, i) ==
    IF i > Len(list) THEN <<>>
    ELSE IF \E j \in 1..(i - 1) : list[j] = list[i]
         THEN UniqueFrom(list, i + 1)
         ELSE <<list[i]>> \o UniqueFrom(list, i + 1)

UniqueVals(list) == UniqueFrom(list, 1)

\* List(cur).splice(axis, 1).toArray(): a negative axis counts from the end.
Splice1(cur, axis) ==
    LET at == IF axis < 0
              THEN (IF Len(cur) + axis < 0 THEN 0 ELSE Len(cur) + axis)
              ELSE (IF axis > Len(cur) THEN Len(cur) ELSE axis)
    IN SubSeq(cur, 1, at) \o SubSeq(cur, at + 2, Len(cur))

\* The trailing value of every example.
ClassList(ds) == [i \in 1..Len(ds) |-> At(ds[i], Len(ds[i]) - 1)]

\* The counting loop shared by calShannoEnt and majorityCnt: an object from
\* String(label) to the number of occurrences.
RECURSIVE CountFrom(_, _, _)
CountFrom(list, i, counts) ==
    IF i > Len(list) THEN counts
    ELSE LET key == ToKey(list[i])
             old == IF HasKey(counts, key)
                    THEN counts[CHOOSE j \in 1..Len(counts) : counts[j].key = key].val
                    ELSE 0
         IN CountFrom(list, i + 1, Put(counts, key, old + 1))

LabelCounts(list) == CountFrom(list, 1, <<>>)

RECURSIVE PowerProduct(_, _)
PowerProduct(counts, i) ==
    IF i > Len(counts) THEN 1
    ELSE (counts[i].val ^ counts[i].val) * PowerProduct(counts, i + 1)

\* The entropy log2(num / den) / n of a data set, with num = n^n and den the
\* product of c^c over the label counts c; 0.0 (num = den) when it is empty.
calShannoEnt(ds) ==
    LET numEntries == Len(ds)
    IN [n |-> numEntries,
        num |-> IF numEntries = 0 THEN 1 ELSE numEntries ^ numEntries,
        den |-> PowerProduct(LabelCounts(ClassList(ds)), 1)]

\* The matching examples kept whole: pre.push(cur).
splitDataSetMut(ds, axis, value) ==
    SelectSeq(ds, LAMBDA cur : At(cur, axis) = value)

splitDataSet(ds, axis, value) ==
    LET kept == SelectSeq(ds, LAMBDA cur : At(cur, axis) = value)
    IN [i \in 1..Len(kept) |-> Splice1(kept[i], axis)]

\* newEntropy of column i, as the ratio of the products over the distinct values
\* v of the entropies' num and den (prob * entropy = log2(num / den) / Len(ds)).
RECURSIVE NewEntropy(_, _, _, _)
NewEntropy(ds, i, uniqueVals, j) ==
    IF j > Len(uniqueVals) THEN [num |-> 1, den |-> 1]
    ELSE LET e == calShannoEnt(splitDataSet(ds, i, uniqueVals[j]))
             rest == NewEntropy(ds, i, uniqueVals, j + 1)
         IN [num |-> e.num * rest.num, den |-> e.den * rest.den]

\* infoGain = baseEntropy - newEntropy, again as log2(num / den) / Len(ds).
InfoGain(ds, i) ==
    LET base == calShannoEnt(ds)
        new == NewEntropy(ds, i, UniqueVals([r \in 1..Len(ds) |-> At(ds[r], i)]), 1)
    IN [num |-> base.num * new.den, den |-> base.den * new.num]

\* The comparison turned round.
GainGreaterMut(g, best) == g.num * best.den < best.num * g.den

\* infoGain > bestInfoGain
GainGreater(g, best) == g.num * best.den > best.num * g.den

RECURSIVE ChooseLoop(_, _, _, _)
ChooseLoop(ds, i, bestInfoGain, bestLabel) ==
    IF i >= Len(ds[1]) - 1 THEN bestLabel
    ELSE LET infoGain == InfoGain(ds, i)
         IN IF GainGreater(infoGain, bestInfoGain)
            THEN ChooseLoop(ds, i + 1, infoGain, i)
            ELSE ChooseLoop(ds, i + 1, bestInfoGain, bestLabel)

chooseBestLabelToSplit(ds) == ChooseLoop(ds, 0, [num |-> 1, den |-> 1], -1)

\* Object.keys(classCount).sort(by count, descending)[0]: the sort is stable, so
\* the first key in Object.keys order among those of the greatest count.
majorityCnt(classList) ==
    LET classCount == LabelCounts(classList)
    IN IF Len(classCount) = 0 THEN Undefined
       ELSE Str(classCount[CHOOSE i \in 1..Len(classCount) :
                    /\ \A j \in 1..Len(classCount) : classCount[j].val <= classCount[i].val
                    /\ \A j \in 1..(i - 1) : classCount[j].val < classCount[i].val].key)

(***************************************************************************)
(* classify                                                                *)
(***************************************************************************)
\* featLabels.indexOf(firstStr), firstStr being a string or undefined.
IndexOf(featLabels, firstStr) ==
    IF \E i \in 1..Len(featLabels) : featLabels[i] = firstStr
    THEN (CHOOSE i \in 1..Len(featLabels) :
              /\ featLabels[i] = firstStr
              /\ \A j \in 1..(i - 1) : featLabels[j] # firstStr) - 1
    ELSE -1

RECURSIVE classify(_, _, _)
RECURSIVE ClassifyLoop(_, _, _, _, _, _)
RECURSIVE ClassifyLoopMut(_, _, _, _, _, _)

\* The loop with the leaf assignment outside the comparison: a leaf passed
\* over becomes the result.
ClassifyLoopMut(secondDict, i, featLabels, testVec, featIndex, resultClass) ==
    LET keys == ObjectKeys(secondDict)
    IN IF i > Len(keys) THEN resultClass
       ELSE LET child == GetProp(secondDict, Str(keys[i]))
            IN IF At(testVec, featIndex) = Str(keys[i])
               THEN IF child.k = "object"
                    THEN LET sub == classify(child, featLabels, testVec)
                         IN IF sub = TypeError THEN TypeError
                            ELSE ClassifyLoopMut(secondDict, i + 1, featLabels, testVec,
                                                 featIndex, sub)
                    ELSE child
               ELSE ClassifyLoopMut(secondDict, i + 1, featLabels, testVec, featIndex,
                                    IF child.k = "object" THEN resultClass ELSE child)

\* The for-of loop over Object.keys(secondDict), from position i on.
ClassifyLoop(secondDict, i, featLabels, testVec, featIndex, resultClass) ==
    LET keys == ObjectKeys(secondDict)
    IN IF i > Len(keys) THEN resultClass
       ELSE IF At(testVec, featIndex) = Str(keys[i])
            THEN LET child == GetProp(secondDict, Str(keys[i]))
                 IN IF child.k = "object"
                    THEN LET sub == classify(child, featLabels, testVec)
                         IN IF sub = TypeError THEN TypeError
                            ELSE ClassifyLoop(secondDict, i + 1, featLabels, testVec,
                                              featIndex, sub)
                    ELSE child
            ELSE ClassifyLoop(secondDict, i + 1, featLabels, testVec, featIndex,
                              resultClass)

\* Object.keys throws on undefined, the only value here it is not defined for.
classify(inputTree, featLabels, testVec) ==
    IF inputTree = Undefined THEN TypeError
    ELSE LET firstStr == At([i \in 1..Len(ObjectKeys(inputTree)) |->
                                 Str(ObjectKeys(inputTree)[i])], 0)
             secondDict == GetProp(inputTree, firstStr)
             featIndex == IndexOf(featLabels, firstStr)
         IN IF secondDict = Undefined THEN TypeError
            ELSE ClassifyLoop(secondDict, 1, featLabels, testVec, featIndex, Undefined)

\* The structure a JSON text spells out: a property whose value is undefined
\* is left out.
RECURSIVE JsonOf(_)
JsonOf(v) ==
    IF v.k # "object" THEN v
    ELSE LET kept == SelectSeq(v.dict, LAMBDA e : e.val # Undefined)
         IN Obj([i \in 1..Len(kept) |->
                    [key |-> kept[i].key, val |-> JsonOf(kept[i].val)]])

\* JSON.stringify(v): undefined for undefined, else a string.
JSONstringify(v) ==
    IF v = Undefined THEN Undefined
    ELSE [k |-> "string", s |-> "json", text |-> JsonOf(v)]

(***************************************************************************)
(* Inputs                                                                  *)
(***************************************************************************)
\* The attribute names of the documentation's example.
AttrNames == <<Str("no-surfacing"), Str("flippers")>>

AttrVals == {Num("0"), Num("1")}

ClassVals == {Str("yes"), Str("no")}

\* The values a query holds: the numbers of the data, or texts, of which "2"
\* occurs in no data set.
QueryTexts == {Str("0"), Str("1"), Str("2")}

\* The data set of the documentation's example.
Example ==
    << <<Num("1"), Num("1"), Str("yes")>>,
       <<Num("1"), Num("1"), Str("yes")>>,
       <<Num("1"), Num("0"), Str("no")>>,
       <<Num("0"), Num("1"), Str("no")>>,
       <<Num("0"), Num("1"), Str("no")>> >>

\* Examples of n attribute values and a class label.
RowsOf(n) == {a \o <<c>> : a \in [1..n -> AttrVals], c \in ClassVals}

\* Non-empty data sets of examples of one arity.
DataSets(n) == UNION {[1..m -> RowsOf(n)] : m \in 1..MaxRows}

\* Data sets the constructor does not expect: none, or examples of several arities.
Malformed ==
    {<<>>} \cup
    {d \in UNION {[1..m -> UNION {RowsOf(n) : n \in 0..Len(AttrNames)}] : m \in 2..MaxRows} :
        \E i, j \in 1..Len(d) : Len(d[i]) # Len(d[j])}

(***************************************************************************)
(* State                                                                   *)
(*   dataSet  the caller's data set, which is also this.dataSet            *)
(*   heap     the label arrays; heap[1] is the caller's, and this.labels   *)
(*   stack    the frames of createTree, the running call last             *)
(*   tree     this.tree                                                    *)
(*   phase    "new" before the constructor, "building", "ready", "threw"   *)
(*   last     the last call of the facade that returned, and its result    *)
(*   pending  the texts of the fs.writeFile calls in flight                *)
(***************************************************************************)
NoCall == [op |-> "none", inputTree |-> Undefined, featLabels |-> <<>>,
           testVec |-> <<>>, result |-> Undefined]

\* A frame of createTree at its first line.  cols names the column each
\* position of the examples held when the data set was given.
Frame(ds, ref, cols) ==
    [dataSet |-> ds, labels |-> ref, pc |-> "enter", bestFeat |-> -1,
     bestFeatLabel |-> "", resultTree |-> Undefined, uniqueVals |-> <<>>,
     i |-> 0, ret |-> Undefined, cols |-> cols]

InitWith(ds, labels) ==
    /\ dataSet = ds
    /\ heap = <<labels>>
    /\ stack = <<>>
    /\ tree = Undefined
    /\ phase = "new"
    /\ last = NoCall
    /\ pending = <<>>

Init ==
    \E n \in 0..Len(AttrNames) :
        \E ds \in DataSets(n) \cup (IF n = Len(AttrNames) THEN {Example} ELSE {}) :
            InitWith(ds, SubSeq(AttrNames, 1, n))

InitMalformed == \E ds \in Malformed : InitWith(ds, AttrNames)

Top == stack[Len(stack)]

\* The list handed on as it is: createTree(dataSet, labels).
DTconstructorMut ==
    /\ phase = "new"
    /\ heap' = Append(heap, heap[1])
    /\ stack' = <<Frame(dataSet, 1, heap[1] \o <<Str("class")>>)>>
    /\ phase' = "building"
    /\ UNCHANGED <<dataSet, tree, last, pending>>

\* this.tree = createTree(dataSet, [...labels])
DTconstructor ==
    /\ phase = "new"
    /\ heap' = Append(heap, heap[1])
    /\ stack' = <<Frame(dataSet, Len(heap) + 1, heap[1] \o <<Str("class")>>)>>
    /\ phase' = "building"
    /\ UNCHANGED <<dataSet, tree, last, pending>>

\* Lines 114-129 of createTree on frame f with the label list labels: the two
\* leaf cases, else the choice of the attribute, which also shortens the label
\* list.  dataSet[0].length throws when the data set is empty.
Entered(f, labels) ==
    LET classList == ClassList(f.dataSet)
        uniqueClasses == Len(UniqueVals(classList))
        bestFeat == chooseBestLabelToSplit(f.dataSet)
        bestFeatLabel == ToKey(At(labels, bestFeat))
    IN IF uniqueClasses = 1
       THEN [threw |-> FALSE, labels |-> labels,
             frame |-> [f EXCEPT !.pc = "return", !.ret = At(classList, 0)]]
       ELSE IF Len(f.dataSet) = 0
       THEN [threw |-> TRUE, labels |-> labels, frame |-> f]
       ELSE IF Len(f.dataSet[1]) = 1
       THEN [threw |-> FALSE, labels |-> labels,
             frame |-> [f EXCEPT !.pc = "return", !.ret = majorityCnt(classList)]]
       ELSE [threw |-> FALSE, labels |-> Splice1(labels, bestFeat),
             frame |-> [f EXCEPT !.pc = "forEach",
                                 !.bestFeat = bestFeat,
                                 !.bestFeatLabel = bestFeatLabel,
                                 !.resultTree =
                                     Obj(<<[key |-> bestFeatLabel, val |-> Obj(<<>>)]>>),
                                 !.uniqueVals =
                                     UniqueVals([r \in 1..Len(f.dataSet) |->
                                                    At(f.dataSet[r], bestFeat)])]]

\* The running call executes its lines up to the loop; an exception ends the
\* constructor.
createTreeEnter ==
    /\ phase = "building"
    /\ Top.pc = "enter"
    /\ stack' = IF Entered(Top, heap[Top.labels]).threw THEN <<>>
                ELSE [stack EXCEPT ![Len(stack)] = Entered(Top, heap[Top.labels]).frame]
    /\ heap' = [heap EXCEPT ![Top.labels] = Entered(Top, heap[Top.labels]).labels]
    /\ phase' = IF Entered(Top, heap[Top.labels]).threw THEN "threw" ELSE phase
    /\ UNCHANGED <<dataSet, tree, last, pending>>

\* Lines 131-133: the recursive call for the next distinct value.
createTreeCall ==
    /\ phase = "building"
    /\ Top.pc = "forEach"
    /\ Top.i < Len(Top.uniqueVals)
    /\ LET f == Top
           v == f.uniqueVals[f.i + 1]
           subDataSet == splitDataSet(f.dataSet, f.bestFeat, v)
       IN /\ heap' = Append(heap, heap[f.labels])
          /\ stack' = Append(stack, Frame(subDataSet, Len(heap) + 1,
                                          Splice1(f.cols, f.bestFeat)))
    /\ UNCHANGED <<dataSet, tree, phase, last, pending>>

\* Line 136: return resultTree once every value has its subtree.
createTreeDone ==
    /\ phase = "building"
    /\ Top.pc = "forEach"
    /\ Top.i = Len(Top.uniqueVals)
    /\ stack' = [stack EXCEPT ![Len(stack)] =
                    [Top EXCEPT !.pc = "return", !.ret = Top.resultTree]]
    /\ UNCHANGED <<dataSet, heap, tree, phase, last, pending>>

\* resultTree[bestFeatLabel][v] = sub
SetChild(resultTree, bestFeatLabel, v, sub) ==
    LET inner == GetProp(resultTree, Str(bestFeatLabel))
    IN Obj(Put(resultTree.dict, bestFeatLabel, Obj(Put(inner.dict, ToKey(v), sub))))

\* A call returns: into line 133 of its caller, or into this.tree (line 170).
createTreeReturn ==
    /\ phase = "building"
    /\ Top.pc = "return"
    /\ IF Len(stack) = 1
       THEN /\ tree' = Top.ret
            /\ stack' = <<>>
            /\ phase' = "ready"
       ELSE LET g == stack[Len(stack) - 1]
            IN /\ stack' = [SubSeq(stack, 1, Len(stack) - 1) EXCEPT ![Len(stack) - 1] =
                               [g EXCEPT !.resultTree =
                                             SetChild(g.resultTree, g.bestFeatLabel,
                                                      g.uniqueVals[g.i + 1], Top.ret),
                                         !.i = g.i + 1]]
               /\ UNCHANGED <<tree, phase>>
    /\ UNCHANGED <<dataSet, heap, last, pending>>

\* The tree and every tree below it.
RECURSIVE Subtrees(_)
Subtrees(t) ==
    IF t.k # "object" THEN {t}
    ELSE {t} \cup UNION {Subtrees(t.dict[1].val.dict[i].val) :
                            i \in 1..Len(t.dict[1].val.dict)}

TestVecs(featLabels) ==
    [1..Len(featLabels) -> AttrVals] \cup [1..Len(featLabels) -> QueryTexts]

DTgetTree ==
    /\ phase = "ready"
    /\ last' = [NoCall EXCEPT !.op = "getTree", !.result = tree]
    /\ UNCHANGED <<dataSet, heap, stack, tree, phase, pending>>

DTclassify ==
    /\ phase = "ready"
    /\ \E testVec \in TestVecs(heap[1]) :
           last' = [op |-> "classify", inputTree |-> tree, featLabels |-> heap[1],
                    testVec |-> testVec, result |-> classify(tree, heap[1], testVec)]
    /\ UNCHANGED <<dataSet, heap, stack, tree, phase, pending>>

\* The static method, given the tree of getTree or a tree below it.
DTclassifyFromTree ==
    /\ phase = "ready"
    /\ \E inputTree \in Subtrees(tree), testVec \in TestVecs(heap[1]) :
           last' = [op |-> "classifyFromTree", inputTree |-> inputTree,
                    featLabels |-> heap[1], testVec |-> testVec,
                    result |-> classify(inputTree, heap[1], testVec)]
    /\ UNCHANGED <<dataSet, heap, stack, tree, phase, pending>>

\* The text kept in place of the tree: this.tree = JSON.stringify(this.tree).
DTstoreTreeMut ==
    /\ phase = "ready"
    /\ Len(pending) < MaxPending
    /\ pending' = Append(pending, JSONstringify(tree))
    /\ tree' = JSONstringify(tree)
    /\ UNCHANGED <<dataSet, heap, stack, phase, last>>

\* Lines 181-183: the text is taken now, the write completes later.
DTstoreTree ==
    /\ phase = "ready"
    /\ Len(pending) < MaxPending
    /\ pending' = Append(pending, JSONstringify(tree))
    /\ UNCHANGED <<dataSet, heap, stack, tree, phase, last>>

\* The callback of fs.writeFile, with or without an error.
writeFileCallback ==
    /\ Len(pending) > 0
    /\ \E err \in BOOLEAN :
           last' = [NoCall EXCEPT !.op = "storeTree", !.inputTree = pending[1],
                                  !.result = Str(IF err THEN "rejected" ELSE "resolved")]
    /\ pending' = Tail(pending)
    /\ UNCHANGED <<dataSet, heap, stack, tree, phase>>

Next ==
    \/ DTconstructor
    \/ createTreeEnter
    \/ createTreeCall
    \/ createTreeDone
    \/ createTreeReturn
    \/ DTgetTree
    \/ DTclassify
    \/ DTclassifyFromTree
    \/ DTstoreTree
    \/ writeFileCallback

Spec == Init /\ [][Next]_vars

SpecMalformed == InitMalformed /\ [][Next]_vars

(***************************************************************************)
(* Properties                                                              *)
(***************************************************************************)
IsSplit(t) == t.k = "object"

\* The attribute a split node names, and its children by key.
NodeName(t) == t.dict[1].key

NodeKids(t) == t.dict[1].val

IsClassifyCall == last.op \in {"classify", "classifyFromTree"}

\* The tree the documentation gives for its example.
ExampleTree ==
    Obj(<<[key |-> "no-surfacing", val |-> Obj(<<
        [key |-> "0", val |-> Str("no")],
        [key |-> "1", val |-> Obj(<<[key |-> "flippers", val |-> Obj(<<
            [key |-> "0", val |-> Str("no")],
            [key |-> "1", val |-> Str("yes")]>>)]>>)]>>)]>>)

\* The query holds, at every split node met from t on, a value that is the key
\* of one of the node's children.
RECURSIVE AllSeen(_, _, _)
AllSeen(t, featLabels, testVec) ==
    IF ~IsSplit(t) THEN TRUE
    ELSE LET v == At(testVec, IndexOf(featLabels, Str(NodeName(t))))
         IN /\ v # Undefined
            /\ HasKey(NodeKids(t).dict, ToKey(v))
            /\ AllSeen(GetProp(NodeKids(t), Str(ToKey(v))), featLabels, testVec)

\* The leaf reached from t by following, at every split node, the child whose
\* key is the query's value.
RECURSIVE LeafReached(_, _, _)
LeafReached(t, featLabels, testVec) ==
    IF ~IsSplit(t) THEN t
    ELSE LeafReached(GetProp(NodeKids(t),
                             Str(ToKey(At(testVec, IndexOf(featLabels, Str(NodeName(t))))))),
                     featLabels, testVec)

\* C1: on the example, classify(labels, [1,0]) is 'no', classify(labels, [1,1])
\* is 'yes' and classify(labels, [0,0]) is 'no'; and for every built tree and
\* every query whose value at each visited split node is one of the node's
\* child keys, classify returns the label of the leaf those children lead to.
C1_ClassifyFollowsChildren ==
    /\ (last.op = "classify" /\ dataSet = Example) =>
           /\ last.testVec = <<Num("1"), Num("0")>> => last.result = Str("no")
           /\ last.testVec = <<Num("1"), Num("1")>> => last.result = Str("yes")
           /\ last.testVec = <<Num("0"), Num("0")>> => last.result = Str("no")
    /\ (IsClassifyCall /\ IsSplit(last.inputTree)
            /\ AllSeen(last.inputTree, last.featLabels, last.testVec)) =>
           last.result = LeafReached(last.inputTree, last.featLabels, last.testVec)

\* The distinct values of column i.
Observed(ds, i) == {At(ds[r], i) : r \in 1..Len(ds)}

\* A frame that has made a split node on one of its columns.
HasSplit(f) == f.resultTree # Undefined /\ f.bestFeat >= 0

\* C2: the example's tree splits on 'no-surfacing', with branch 0 the leaf 'no'
\* and branch 1 a split on 'flippers' into 'no' (0) and 'yes' (1); and wherever
\* createTree splits on a column, no column has a greater information gain,
\* the node is named by that column's label, and once the node is complete it
\* has one child per observed value of the column.
C2_ExampleTree ==
    /\ (phase = "ready" /\ dataSet = Example) => tree = ExampleTree
    /\ \A d \in 1..Len(stack) :
           LET f == stack[d]
           IN HasSplit(f) =>
                  /\ \A j \in 0..(Len(f.dataSet[1]) - 2) :
                         ~GainGreater(InfoGain(f.dataSet, j), InfoGain(f.dataSet, f.bestFeat))
                  /\ NodeName(f.resultTree) = ToKey(f.cols[f.bestFeat + 1])
                  /\ f.pc = "return" =>
                         /\ {NodeKids(f.ret).dict[c].key :
                                 c \in 1..Len(NodeKids(f.ret).dict)}
                                = {ToKey(v) : v \in Observed(f.dataSet, f.bestFeat)}
                         /\ Len(NodeKids(f.ret).dict)
                                = Cardinality(Observed(f.dataSet, f.bestFeat))

C2_Witness ==
    /\ phase = "ready"
    /\ dataSet = Example
    /\ IsSplit(GetProp(NodeKids(tree), Str("1")))

\* The query misses at some split node visited from t on: its value there is
\* the key of no child (strict: no key is identical to the value; otherwise:
\* no key is the text of the value).
RECURSIVE Misses(_, _, _, _)
Misses(t, featLabels, testVec, strict) ==
    IF ~IsSplit(t) THEN FALSE
    ELSE LET v == At(testVec, IndexOf(featLabels, Str(NodeName(t))))
             seen == IF strict
                     THEN v.k = "string" /\ HasKey(NodeKids(t).dict, v.s)
                     ELSE v # Undefined /\ HasKey(NodeKids(t).dict, ToKey(v))
         IN IF seen
            THEN Misses(GetProp(NodeKids(t), Str(ToKey(v))), featLabels, testVec, strict)
            ELSE TRUE

\* C3: for a tree whose root is a split node, a query whose value at some
\* visited split node is not among the node's child keys gets undefined, and
\* the call does not throw.
C3_UnseenIsUndefined ==
    (IsClassifyCall /\ IsSplit(last.inputTree)
        /\ \E strict \in BOOLEAN :
               Misses(last.inputTree, last.featLabels, last.testVec, strict))
        => last.result = Undefined

C3_Witness ==
    /\ last.op = "classify"
    /\ IsSplit(tree)
    /\ \E i \in 1..Len(last.testVec) : last.testVec[i] = Str("2")
    /\ Misses(tree, last.featLabels, last.testVec, FALSE)
    /\ last.result = Undefined

\* The data set is empty or its examples differ in length.
IsMalformed(ds) == Len(ds) = 0 \/ \E i, j \in 1..Len(ds) : Len(ds[i]) # Len(ds[j])

\* C4: the constructor fails on an empty data set and on examples of unequal
\* arity before any recursive step of createTree: no tree is produced.
C4_MalformedRejected ==
    IsMalformed(dataSet) => (phase # "ready" /\ Len(stack) <= 1)

\* C5: once built, the tree is changed by no classify, classifyFromTree,
\* getTree or storeTree call, whether the write succeeds or fails, and a
\* classify call returns what the tree as built gives for its query.
C5_TreeImmutable ==
    [][phase = "ready" =>
           /\ tree' = tree
           /\ phase' = "ready"
           /\ last'.op = "classify" =>
                  last'.result = classify(tree, last'.featLabels, last'.testVec)]_vars

C5_Witness ==
    /\ phase = "ready"
    /\ IsSplit(tree)
    /\ last.op = "storeTree"
    /\ last.result = Str("rejected")

\* C6: the constructor changes neither the caller's labels (which are also
\* this.labels) nor the caller's data set, although createTree removes
\* entries from its working list.
C6_InputsUnchanged ==
    [][heap'[1] = heap[1] /\ dataSet' = dataSet]_vars

C6_Witness ==
    /\ phase = "ready"
    /\ heap[1] = AttrNames
    /\ Len(heap[2]) < Len(heap[1])

\* C7: a call of createTree whose data set is not pure, has an attribute
\* column and has no column of positive gain returns the leaf of the majority
\* label; it makes no split node and no recursive call.
C7_NoGainIsMajorityLeaf ==
    \A d \in 1..Len(stack) :
        LET f == stack[d]
        IN (/\ f.pc # "enter"
            /\ Len(UniqueVals(ClassList(f.dataSet))) > 1
            /\ Len(f.dataSet[1]) > 1
            /\ chooseBestLabelToSplit(f.dataSet) = -1)
               => (f.pc = "return" /\ f.ret = majorityCnt(ClassList(f.dataSet)))

\* The greatest number of split nodes on a path of the tree.
RECURSIVE Depth(_)
Depth(t) ==
    IF ~IsSplit(t) THEN 0
    ELSE LET kids == NodeKids(t).dict
             below == {Depth(kids[c].val) : c \in 1..Len(kids)}
         IN 1 + (CHOOSE m \in below \cup {0} : \A n \in below : n <= m)

\* An upper bound of the steps of one call of createTree, its return
\* included, on examples of c columns when no data set has more than rows
\* examples: one step to enter and one to return, and for a split one step
\* per call made and one to leave the loop.
RECURSIVE CallCost(_, _)
CallCost(c, rows) ==
    IF c <= 1 THEN 2 ELSE 3 + rows * (1 + CallCost(c - 1, rows))

\* The steps the frame at depth d has left, those of a call it has made and
\* that is still running not counted.
FrameRank(d) ==
    LET f == stack[d]
        c == Len(f.dataSet[1])
        waiting == IF d = Len(stack) THEN 0 ELSE 1
    IN CASE f.pc = "enter" -> CallCost(c, Len(dataSet))
         [] f.pc = "forEach" ->
                (Len(f.uniqueVals) - f.i - waiting) * (1 + CallCost(c - 1, Len(dataSet))) + 2
         [] OTHER -> 1

RECURSIVE RankFrom(_)
RankFrom(d) == IF d > Len(stack) THEN 0 ELSE FrameRank(d) + RankFrom(d + 1)

\* The steps the constructor has left, at most.
Rank ==
    IF phase = "new" THEN 1 + CallCost(Len(dataSet[1]), Len(dataSet)) ELSE RankFrom(1)

\* C8: createTree ends on every non-empty data set of examples of one arity:
\* while the constructor runs a step is always possible and every step lowers
\* Rank, which is never negative; every recursive call has a data set of fewer
\* columns than its caller's, and the tree is never deeper than the number of
\* attributes.
C8_Terminates ==
    /\ [](/\ \A d \in 2..Len(stack) :
                 Len(stack[d].dataSet[1]) < Len(stack[d - 1].dataSet[1])
          /\ phase = "ready" => Depth(tree) <= Len(dataSet[1]) - 1
          /\ phase \in {"new", "building", "ready"}
          /\ phase = "building" =>
                 /\ Len(stack) > 0
                 /\ Top.pc \in {"enter", "forEach", "return"}
                 /\ Top.pc = "forEach" => Top.i <= Len(Top.uniqueVals)
          /\ Rank >= 0)
    /\ [][phase # "ready" => Rank' < Rank]_vars

C8_Witness ==
    /\ phase = "ready"
    /\ Len(dataSet[1]) = 2
    /\ Len(UniqueVals(ClassList(dataSet))) > 1
    /\ Len(UniqueVals([r \in 1..Len(dataSet) |-> At(dataSet[r], 0)])) = 1

\* C9: classify of a tree that is a leaf returns the leaf's label, whatever
\* the labels and the query, and does not throw.
C9_LeafTreeIsItsLabel ==
    (IsClassifyCall /\ ~IsSplit(last.inputTree)) => last.result = last.inputTree

\* C10: every call of createTree has one label per attribute column, the
\* label at each position naming the column at that position; a recursive
\* call has one label and one column fewer than its caller had; and a split
\* node is named by the column split on.
C10_LabelsMatchColumns ==
    \A d \in 1..Len(stack) :
        LET f == stack[d]
        IN /\ f.pc = "enter" =>
                  /\ Len(heap[f.labels]) = Len(f.dataSet[1]) - 1
                  /\ \A j \in 1..Len(heap[f.labels]) : heap[f.labels][j] = f.cols[j]
           /\ d > 1 =>
                  /\ Len(f.cols) = Len(stack[d - 1].cols) - 1
                  /\ Len(f.dataSet[1]) = Len(stack[d - 1].dataSet[1]) - 1
           /\ f.resultTree # Undefined =>
                  /\ f.bestFeat \in 0..(Len(f.dataSet[1]) - 2)
                  /\ NodeName(f.resultTree) = ToKey(f.cols[f.bestFeat + 1])

====
